---- MODULE Spec2Model ----
(***************************************************************************)
(* WiseMind: the user-listing screen (src/home.js) and the login screen    *)
(* (src/unnamed/part_000, screens/LoginScreen.js).                         *)
(*                                                                         *)
(* JavaScript strings are sequences of one-character strings, so that      *)
(* toLowerCase, includes, the email pattern and the relational comparison  *)
(* are computed and not assumed.  JavaScript values that the sort reads    *)
(* through getNestedValue are tagged records: a string, a number, an       *)
(* object (a map from property names to values) or undefined.              *)
(***************************************************************************)
EXTENDS Integers, Sequences, FiniteSets, TLC

VARIABLES
    \* ---- src/home.js, App ----
    users,            \* useState([])            line 26
    loading,          \* useState(true)          line 27
    error,            \* useState(null)          line 28
    searchQuery,      \* useState('')            line 30
    sortColumn,       \* useState('name')        line 33
    sortDirection,    \* useState('ascending')   line 34
    page,             \* useState(0)             line 37
    itemsPerPage,     \* useState(5)             line 38
    processedUsers,   \* the memoized value of lines 66-100
    fetchPc,          \* position of the promise chain of lines 43-63
    fetchCount,       \* number of fetch(API_URL) calls issued
    response,         \* the pending response: its body, and whether the body is JSON
    \* ---- src/unnamed/part_000, LoginScreen ----
    email,            \* useState('')            line 10
    pass,             \* useState('')            line 11
    storage,          \* AsyncStorage, key 'user'
    checkPc,          \* position of checkLoginStatus, lines 15-20
    loginPending,     \* handleLogin calls suspended at the await of line 42
    navCalls,         \* navigation.replace('Home') calls, by caller
    alerts,           \* Alert.alert calls issued
    mounted           \* the login screen is the shown route

homeVars  == <<users, loading, error, searchQuery, sortColumn, sortDirection,
               page, itemsPerPage, processedUsers, fetchPc, fetchCount, response>>
loginVars == <<email, pass, storage, checkPc, loginPending, navCalls, alerts, mounted>>
vars      == <<homeVars, loginVars>>

(***************************************************************************)
(* Bounds of the model.                                                    *)
(***************************************************************************)
\* longest collection drawn from UserPool (any order, distinct records)
MaxLen == 3
\* longest generated collection (more than two pages of five rows)
MaxUsers == 11
\* most handleLogin calls suspended at once, most alerts counted
MaxPending == 2
MaxAlerts == 2

(***************************************************************************)
(* JavaScript strings.                                                     *)
(***************************************************************************)
\* UTF-16 code units of the characters the model uses
CharCode ==
    ("a" :> 97) @@ ("b" :> 98) @@ ("c" :> 99) @@ ("z" :> 122) @@
    ("A" :> 65) @@ ("B" :> 66) @@ ("C" :> 67) @@
    ("@" :> 64) @@ ("." :> 46) @@ (" " :> 32) @@ ("1" :> 49)

\* String.prototype.toLowerCase on one character
LowerChar(c) ==
    IF CharCode[c] >= 65 /\ CharCode[c] <= 90
    THEN CHOOSE d \in DOMAIN CharCode : CharCode[d] = CharCode[c] + 32
    ELSE c

\* String.prototype.toLowerCase
ToLowerCase(s) == [i \in 1..Len(s) |-> LowerChar(s[i])]

\* String.prototype.includes
Includes(s, t) ==
    \E k \in 0..(Len(s) - Len(t)) : SubSeq(s, k + 1, k + Len(t)) = t

\* the relational comparison s < t of two strings: code units, left to right
RECURSIVE StrLess(_, _)
StrLess(s, t) ==
    IF t = <<>> THEN FALSE
    ELSE IF s = <<>> THEN TRUE
    ELSE IF CharCode[Head(s)] < CharCode[Head(t)] THEN TRUE
    ELSE IF CharCode[Head(s)] > CharCode[Head(t)] THEN FALSE
    ELSE StrLess(Tail(s), Tail(t))

(***************************************************************************)
(* JavaScript values.                                                      *)
(***************************************************************************)
Undefined == [type |-> "undefined"]
Str(s)    == [type |-> "string", chars |-> s]
Num(n)    == [type |-> "number", num |-> n]
Obj(f)    == [type |-> "object", fields |-> f]

\* ToBoolean
Truthy(v) ==
    CASE v.type = "undefined" -> FALSE
      [] v.type = "string"    -> v.chars # <<>>
      [] v.type = "number"    -> v.num # 0
      [] OTHER                -> TRUE

\* acc[part]: a property of an object; strings and numbers have no such property
GetProp(v, part) ==
    IF v.type = "object" /\ part \in DOMAIN v.fields THEN v.fields[part] ELSE Undefined

\* path.split('.') for the three column paths the headers pass to handleSort
Columns == {"name", "email", "address.city"}
SplitPath(path) ==
    CASE path = "name"         -> <<"name">>
      [] path = "email"        -> <<"email">>
      [] path = "address.city" -> <<"address", "city">>

\* path.split('.').reduce((acc, part) => acc && acc[part], obj)
RECURSIVE ReducePath(_, _)
ReducePath(acc, parts) ==
    IF parts = <<>> THEN acc
    ELSE ReducePath(IF Truthy(acc) THEN GetProp(acc, Head(parts)) ELSE acc, Tail(parts))

getNestedValue(obj, path) == ReducePath(obj, SplitPath(path))

\* valA / valB of lines 85-86: a string is case-folded, anything else is kept
SortValue(obj, path) ==
    LET v == getNestedValue(obj, path)
    IN  IF v.type = "string" THEN Str(ToLowerCase(v.chars)) ELSE v

\* valA < valB for the values the columns resolve to: two strings compare by
\* code units; undefined converts to NaN, and every comparison with NaN is false
JsLess(a, b) ==
    IF a.type = "string" /\ b.type = "string" THEN StrLess(a.chars, b.chars) ELSE FALSE

(***************************************************************************)
(* The filter / sort / paginate pipeline, src/home.js lines 66-106.        *)
(***************************************************************************)
\* a variant of the comparator in which a descending sort also orders ties
CompareFlipTies(valA, valB, direction) ==
    IF JsLess(valA, valB) THEN (IF direction = "ascending" THEN -1 ELSE 1)
    ELSE IF JsLess(valB, valA) THEN (IF direction = "ascending" THEN 1 ELSE -1)
    ELSE (IF direction = "ascending" THEN 0 ELSE 1)

\* lines 89-95: what the comparator returns for valA and valB
CompareValues(valA, valB, direction) ==
    IF JsLess(valA, valB) THEN (IF direction = "ascending" THEN -1 ELSE 1)
    ELSE IF JsLess(valB, valA) THEN (IF direction = "ascending" THEN 1 ELSE -1)
    ELSE 0

\* lines 81-96: the comparator (a, b) => ...
Compare(a, b, column, direction) ==
    CompareValues(SortValue(a, column), SortValue(b, column), direction)

\* Array.prototype.sort requires a consistent comparator (ECMA-262, 23.1.3.30):
\* over the values being sorted, = is reflexive, symmetric and transitive, < and
\* > are transitive, and a < b exactly when b > a.  The comparator reads an
\* element only through its sort value, so the values decide it.
ConsistentComparator(arr, column, direction) ==
    LET V == {SortValue(arr[i], column) : i \in 1..Len(arr)}
        c(x, y) == CompareValues(x, y, direction)
    IN  /\ \A x \in V : c(x, x) = 0
        /\ \A x, y \in V : /\ (c(x, y) = 0) => (c(y, x) = 0)
                           /\ (c(x, y) < 0) <=> (c(y, x) > 0)
        /\ \A x, y, z \in V :
              /\ (c(x, y) = 0 /\ c(y, z) = 0) => (c(x, z) = 0)
              /\ (c(x, y) < 0 /\ c(y, z) < 0) => (c(x, z) < 0)
              /\ (c(x, y) > 0 /\ c(y, z) > 0) => (c(x, z) > 0)

\* the stable sort every engine yields for a consistent comparator (ES2019):
\* an insertion sort that moves an element forward past the elements it
\* compares less than
StableSort(arr, column, direction) ==
    SortSeq(arr, LAMBDA a, b : Compare(a, b, column, direction) < 0)

ArrayPermutations(arr) ==
    LET n == Len(arr)
    IN  {[i \in 1..n |-> arr[p[i]]] :
            p \in {q \in [1..n -> 1..n] : \A i, j \in 1..n : q[i] = q[j] => i = j}}

\* filteredUsers.sort(comparator): one result for a consistent comparator; for
\* an inconsistent one the order is implementation-defined, any permutation
ArraySort(arr, column, direction) ==
    IF ConsistentComparator(arr, column, direction)
    THEN {StableSort(arr, column, direction)}
    ELSE ArrayPermutations(arr)

\* a variant of the filter that does not lower-case the query
FilterNoFold(elems, query) ==
    IF query # <<>>
    THEN SelectSeq(elems, LAMBDA user :
             Includes(ToLowerCase(GetProp(user, "name").chars), query))
    ELSE elems

\* lines 72-77: the filter stage on the elements of the copied array
FilterStage(elems, query) ==
    IF query # <<>>
    THEN LET lowercasedQuery == ToLowerCase(query)
         IN  SelectSeq(elems, LAMBDA user :
                 Includes(ToLowerCase(GetProp(user, "name").chars), lowercasedQuery))
    ELSE elems

\* a variant without the copy: filteredUsers = users
SpreadAlias(arr) == [alias |-> TRUE, elems |-> arr]

\* line 69, [...users]: a new array object holding the same elements.  `alias`
\* tells whether the array object is the one the state variable users holds.
SpreadCopy(arr) == [alias |-> FALSE, elems |-> arr]

\* lines 66-100, one evaluation of the memoized function: the set of outcomes,
\* each the returned array and the users array as the in-place sort leaves it
ProcessedUsersRun(us, query, column, direction) ==
    LET copied   == SpreadCopy(us)
        filtered == IF query # <<>>
                    THEN [alias |-> FALSE, elems |-> FilterStage(copied.elems, query)]
                    ELSE copied
        sorted   == IF column # ""
                    THEN ArraySort(filtered.elems, column, direction)
                    ELSE {filtered.elems}
    IN  {[result |-> s, users |-> IF filtered.alias THEN s ELSE us] : s \in sorted}

\* Array.prototype.slice(from, to) for 0 <= from <= to
Slice(arr, from, to) ==
    LET lo == IF from > Len(arr) THEN Len(arr) ELSE from
        hi == IF to > Len(arr) THEN Len(arr) ELSE to
    IN  SubSeq(arr, lo + 1, hi)

\* a variant of the slice that ends one row early
PaginatedOffByOne(processed, pg, perPage) ==
    LET from == pg * perPage
        to   == from + perPage - 1
    IN  Slice(processed, from, to)

\* lines 102-106
paginatedUsers(processed, pg, perPage) ==
    LET from == pg * perPage
        to   == from + perPage
    IN  Slice(processed, from, to)

\* line 177: Math.ceil(processedUsers.length / itemsPerPage)
numberOfPages(processed, perPage) == (Len(processed) + perPage - 1) \div perPage

\* line 39
itemsPerPageOptions == <<5, 10, 15>>

(***************************************************************************)
(* What the remote source returns (line 8, API_URL): an array of user      *)
(* objects with id, name, email and address.city.                          *)
(***************************************************************************)
User(id, name, mail, address) ==
    Obj([id |-> Num(id), name |-> Str(name), email |-> Str(mail), address |-> Obj(address)])

\* four users; 1 and 2 share a city and 2 and 3 a name, up to case
UserPool ==
    { User(1, <<"B", "a">>,      <<"b", "@", "a">>, [city |-> Str(<<"b">>)]),
      User(2, <<"a", "b">>,      <<"a", "@", "a">>, [city |-> Str(<<"B">>)]),
      User(3, <<"A", "b">>,      <<"c", "@", "a">>, [city |-> Str(<<"a">>)]),
      User(4, <<"c", "a", "b">>, <<"A", "@", "a">>, [city |-> Str(<<"c">>)]) }

\* a user whose address has no city: getNestedValue(user, 'address.city') is
\* undefined (the row of line 171 then shows an empty cell)
UserNoCity == User(5, <<"b">>, <<"z", "@", "a">>, [zipcode |-> Str(<<"1">>)])

\* the arrays of at most n distinct elements of pool
ArraysOver(pool, n) ==
    UNION {{a \in [1..k -> pool] : \A i, j \in 1..k : a[i] = a[j] => i = j} : k \in 0..n}

\* a longer array, for more than one page: user i of the generated collection
GenNames  == << <<"B", "a">>, <<"a", "b">>, <<"c">>, <<"A", "b">> >>
GenCities == << <<"b">>, <<"a">>, <<"B">> >>
GenUser(i) ==
    User(10 + i, GenNames[(i % 4) + 1], <<GenNames[((i * 3) % 4) + 1][1], "@", "a">>,
         [city |-> Str(GenCities[(i % 3) + 1])])
GenData(n) == [i \in 1..n |-> GenUser(i)]

\* response bodies: every field present, as the source promises
DataSets == ArraysOver(UserPool, MaxLen) \cup {GenData(n) : n \in {MaxUsers - 5, MaxUsers}}

\* response bodies in which a user may lack address.city
NoCityPool == {u \in UserPool : GetProp(u, "id").num \in {1, 3}} \cup {UserNoCity}
DataSetsNoCity == ArraysOver(NoCityPool, MaxLen) \cup {GenData(MaxUsers)}

\* texts typed into the search bar
Terms == { <<>>, <<"a">>, <<"B">>, <<"A", "b">>, <<"z">> }

\* the bodies of an ok response: an array of users, or text that is no JSON
Bodies(data) == {[json |-> TRUE, data |-> d] : d \in data} \cup {[json |-> FALSE, data |-> <<>>]}

\* useState(null), line 28
Null == "null"

(***************************************************************************)
(* src/home.js: the listing screen.                                        *)
(***************************************************************************)
\* the re-render after a state update: useMemo of lines 66-100 runs again when
\* one of [users, searchQuery, sortColumn, sortDirection] changed, and the
\* in-place sort acts on whatever array it was handed
Render(us, changed) ==
    IF changed
    THEN \E run \in ProcessedUsersRun(us, searchQuery', sortColumn', sortDirection') :
            /\ processedUsers' = run.result
            /\ users' = run.users
    ELSE /\ processedUsers' = processedUsers
         /\ users' = us

\* lines 43-45: the effect of the first render
Mount ==
    /\ fetchPc = "mount"
    /\ loading' = TRUE
    /\ fetchCount' = fetchCount + 1
    /\ fetchPc' = "pending"
    /\ UNCHANGED <<users, error, searchQuery, sortColumn, sortDirection, page,
                   itemsPerPage, processedUsers, response, loginVars>>

\* lines 46-51: a response with response.ok; response.json() reads the body
ResponseOk(body) ==
    /\ fetchPc = "pending"
    /\ response' = body
    /\ fetchPc' = "json"
    /\ UNCHANGED <<users, loading, error, searchQuery, sortColumn, sortDirection,
                   page, itemsPerPage, processedUsers, fetchCount, loginVars>>

\* the ok response carries one of the bodies
Respond(data) ==
    /\ fetchPc = "pending"
    /\ \E b \in Bodies(data) : ResponseOk(b)

\* lines 52-55 and 60-62: the body parsed, then the finally callback
JsonDone ==
    /\ fetchPc = "json"
    /\ response.json
    /\ error' = Null
    /\ loading' = FALSE
    /\ fetchPc' = "done"
    /\ UNCHANGED <<searchQuery, sortColumn, sortDirection, page, itemsPerPage,
                   fetchCount, response, loginVars>>
    /\ Render(response.data, TRUE)

\* a variant of the chain without the finally callback
CatchNoFinally(message) ==
    /\ error' = message
    /\ loading' = loading
    /\ fetchPc' = "done"
    /\ UNCHANGED <<searchQuery, sortColumn, sortDirection, page, itemsPerPage,
                   fetchCount, response, loginVars>>
    /\ Render(<<>>, TRUE)

\* lines 56-62: the catch callback, then the finally callback
Catch(message) ==
    /\ error' = message
    /\ loading' = FALSE
    /\ fetchPc' = "done"
    /\ UNCHANGED <<searchQuery, sortColumn, sortDirection, page, itemsPerPage,
                   fetchCount, response, loginVars>>
    /\ Render(<<>>, TRUE)

\* lines 47-49: a response that is not ok
ResponseNotOk ==
    /\ fetchPc = "pending"
    /\ Catch("Network response was not ok")

\* line 45: fetch rejects (no network)
TransportFailure ==
    /\ fetchPc = "pending"
    /\ Catch("Network request failed")

\* line 50: response.json() rejects (the body is no JSON)
JsonFail ==
    /\ fetchPc = "json"
    /\ ~response.json
    /\ Catch("JSON Parse error")

\* what the render of lines 125-190 shows
SearchbarShown == fetchPc # "mount" /\ error = Null
TableShown     == SearchbarShown /\ ~loading

\* a variant of handleSort that keeps the direction on a new column
SortNoReset(column, direction, pressed) ==
    IF column = pressed
    THEN [column |-> column,
          direction |-> IF direction = "ascending" THEN "descending" ELSE "ascending"]
    ELSE [column |-> pressed, direction |-> direction]

\* lines 110-117: the sort state after a press on a column header
SortAfterPress(column, direction, pressed) ==
    IF column = pressed
    THEN [column |-> column,
          direction |-> IF direction = "ascending" THEN "descending" ELSE "ascending"]
    ELSE [column |-> pressed, direction |-> "ascending"]

\* lines 156-162 and 110-117
handleSort(column) ==
    /\ TableShown
    /\ LET after == SortAfterPress(sortColumn, sortDirection, column)
       IN  /\ sortColumn' = after.column
           /\ sortDirection' = after.direction
    /\ UNCHANGED <<loading, error, searchQuery, page, itemsPerPage, fetchPc,
                   fetchCount, response, loginVars>>
    /\ Render(users, TRUE)

\* lines 140-146 and 119-122: the search bar reports a changed text
handleSearch(query) ==
    /\ SearchbarShown
    /\ query # searchQuery
    /\ searchQuery' = query
    /\ page' = 0
    /\ UNCHANGED <<loading, error, sortColumn, sortDirection, itemsPerPage, fetchPc,
                   fetchCount, response, loginVars>>
    /\ Render(users, TRUE)

\* lines 175-178: onPageChange with one of the pages the control shows,
\* 0 .. numberOfPages - 1
onPageChange(p) ==
    /\ TableShown
    /\ p \in 0..(numberOfPages(processedUsers, itemsPerPage) - 1)
    /\ p # page
    /\ page' = p
    /\ UNCHANGED <<loading, error, searchQuery, sortColumn, sortDirection,
                   itemsPerPage, fetchPc, fetchCount, response, loginVars>>
    /\ Render(users, FALSE)

\* lines 180-182: the rows-per-page selector
onItemsPerPageChange(n) ==
    /\ TableShown
    /\ n # itemsPerPage
    /\ itemsPerPage' = n
    /\ UNCHANGED <<loading, error, searchQuery, sortColumn, sortDirection, page,
                   fetchPc, fetchCount, response, loginVars>>
    /\ Render(users, FALSE)

PerPageChoices == {itemsPerPageOptions[i] : i \in 1..Len(itemsPerPageOptions)}

UserEvent ==
    \/ \E c \in Columns : handleSort(c)
    \/ \E q \in Terms : handleSearch(q)
    \/ \E p \in 0..MaxUsers : onPageChange(p)
    \/ \E n \in PerPageChoices : onItemsPerPageChange(n)

FetchFailure == ResponseNotOk \/ TransportFailure \/ JsonFail

Next ==
    \/ Mount
    \/ Respond(DataSets)
    \/ JsonDone
    \/ FetchFailure
    \/ UserEvent

(***************************************************************************)
(* src/unnamed/part_000: the login screen.  AsyncStorage reads and writes  *)
(* are taken to resolve; each resolves in a later task than the call.      *)
(***************************************************************************)
\* line 41, the literal pair
TestEmail == <<"t", "e", "s", "t", "@", "g", "m", "a", "i", "l", ".", "c", "o", "m">>
TestPass  == "pass123"

\* texts typed into the two inputs
EmailInputs ==
    { <<>>,
      TestEmail,
      <<"T", "e", "s", "t", "@", "g", "m", "a", "i", "l", ".", "c", "o", "m">>,
      <<"t", "e", "s", "t", "@", "g", "m", "a", "i", "l">>,
      <<"t", "e", " ", "t", "@", "g", "m", "a", "i", "l", ".", "c", "o", "m">>,
      <<"a", "@", "b", ".", "c">> }
PassInputs == {"", TestPass, "wrong"}

\* the class [^\s@] of line 25
NotSpaceNotAt(c) == c \notin {" ", "\t", "\n", "\r", "@"}

\* lines 24-27: /^[^\s@]+@[^\s@]+\.[^\s@]+$/.test(email)
validateEmail(text) ==
    \E at, dot \in 1..Len(text) :
        /\ text[at] = "@"
        /\ text[dot] = "."
        /\ 1 < at /\ at + 1 < dot /\ dot < Len(text)
        /\ \A i \in 1..Len(text) : i # at => NotSpaceNotAt(text[i])

\* line 42: JSON.stringify({ email }) for an email without quotes or backslashes
JsonStringify(text) == <<"{", "\"", "email", "\"", ":", "\"">> \o text \o <<"\"", "}">>

\* AsyncStorage.getItem of a key never set
NoItem == <<>>

\* a variant of the credentials test with || for &&
LoginOutcomeEither(mail, pw) ==
    IF mail = <<>> \/ pw = "" THEN "Validation Error"
    ELSE IF ~validateEmail(mail) THEN "Invalid Email"
    ELSE IF mail = TestEmail \/ pw = TestPass THEN "setItem"
    ELSE "Login Failed"

\* lines 30-46: what a press on Log In does with the typed pair
LoginOutcome(mail, pw) ==
    IF mail = <<>> \/ pw = "" THEN "Validation Error"
    ELSE IF ~validateEmail(mail) THEN "Invalid Email"
    ELSE IF mail = TestEmail /\ pw = TestPass THEN "setItem"
    ELSE "Login Failed"

\* the form of lines 50-76 takes input: it is rendered from the first render on,
\* whatever checkLoginStatus is doing, until navigation.replace removes the screen
FormShown == mounted /\ checkPc # "mount"

\* lines 14-16 and 21: the effect calls checkLoginStatus, which suspends at getItem
CheckLoginStart ==
    /\ checkPc = "mount"
    /\ checkPc' = "reading"
    /\ UNCHANGED <<email, pass, storage, loginPending, navCalls, alerts, mounted, homeVars>>

\* lines 16-19: getItem resolves
CheckLoginResume ==
    /\ checkPc = "reading"
    /\ checkPc' = "done"
    /\ IF storage # NoItem
       THEN /\ navCalls' = [navCalls EXCEPT !.check = @ + 1]
            /\ mounted' = FALSE
       ELSE UNCHANGED <<navCalls, mounted>>
    /\ UNCHANGED <<email, pass, storage, loginPending, alerts, homeVars>>

\* line 56
setEmail(text) ==
    /\ FormShown
    /\ text # email
    /\ email' = text
    /\ UNCHANGED <<pass, storage, checkPc, loginPending, navCalls, alerts, mounted, homeVars>>

\* line 65
setPass(text) ==
    /\ FormShown
    /\ text # pass
    /\ pass' = text
    /\ UNCHANGED <<email, storage, checkPc, loginPending, navCalls, alerts, mounted, homeVars>>

\* lines 29-42 and 44-46: a press on Log In, up to the alert or to the await
handleLogin ==
    /\ FormShown
    /\ LET outcome == LoginOutcome(email, pass)
       IN  IF outcome = "setItem"
           THEN /\ Len(loginPending) < MaxPending
                /\ loginPending' = Append(loginPending, [email |-> email, pass |-> pass])
                /\ UNCHANGED alerts
           ELSE /\ Len(alerts) < MaxAlerts
                /\ alerts' = Append(alerts, outcome)
                /\ UNCHANGED loginPending
    /\ UNCHANGED <<email, pass, storage, checkPc, navCalls, mounted, homeVars>>

\* lines 42-43: setItem resolves and handleLogin goes on to navigation.replace
handleLoginResume ==
    /\ loginPending # <<>>
    /\ storage' = JsonStringify(Head(loginPending).email)
    /\ loginPending' = Tail(loginPending)
    /\ navCalls' = [navCalls EXCEPT !.login = @ + 1]
    /\ mounted' = FALSE
    /\ UNCHANGED <<email, pass, checkPc, alerts, homeVars>>

LoginNext ==
    \/ CheckLoginStart
    \/ CheckLoginResume
    \/ \E text \in EmailInputs : setEmail(text)
    \/ \E text \in PassInputs : setPass(text)
    \/ handleLogin
    \/ handleLoginResume

(***************************************************************************)
(* Specifications.                                                         *)
(***************************************************************************)
\* the listing screen at its first render; the login screen is not in play
Init ==
    /\ users = <<>>
    /\ loading = TRUE
    /\ error = Null
    /\ searchQuery = <<>>
    /\ sortColumn = "name"
    /\ sortDirection = "ascending"
    /\ page = 0
    /\ itemsPerPage = itemsPerPageOptions[1]
    /\ processedUsers = <<>>
    /\ fetchPc = "mount"
    /\ fetchCount = 0
    /\ response = [json |-> FALSE, data |-> <<>>]
    /\ email = <<>>
    /\ pass = ""
    /\ storage = NoItem
    /\ checkPc = "mount"
    /\ loginPending = <<>>
    /\ navCalls = [check |-> 0, login |-> 0]
    /\ alerts = <<>>
    /\ mounted = TRUE

\* the login screen at its first render, with or without a stored session;
\* the listing screen is not in play
LoginInit ==
    /\ email = <<>>
    /\ pass = ""
    /\ storage \in {NoItem, JsonStringify(TestEmail)}
    /\ checkPc = "mount"
    /\ loginPending = <<>>
    /\ navCalls = [check |-> 0, login |-> 0]
    /\ alerts = <<>>
    /\ mounted = TRUE
    /\ users = <<>>
    /\ loading = TRUE
    /\ error = Null
    /\ searchQuery = <<>>
    /\ sortColumn = "name"
    /\ sortDirection = "ascending"
    /\ page = 0
    /\ itemsPerPage = itemsPerPageOptions[1]
    /\ processedUsers = <<>>
    /\ fetchPc = "mount"
    /\ fetchCount = 0
    /\ response = [json |-> FALSE, data |-> <<>>]

\* the listing screen, fed what the remote source promises
Spec == Init /\ [][Next]_vars

\* the fetch is network I/O that ends: each pending step happens eventually
Fairness ==
    /\ WF_vars(Mount)
    /\ WF_vars(Respond(DataSets) \/ ResponseNotOk \/ TransportFailure)
    /\ WF_vars(JsonDone \/ JsonFail)
FairSpec == Spec /\ Fairness

\* the listing screen, fed users that may lack address.city
NextNoCity ==
    \/ Mount
    \/ Respond(DataSetsNoCity)
    \/ JsonDone
    \/ FetchFailure
    \/ UserEvent
SpecNoCity == Init /\ [][NextNoCity]_vars

\* the login screen
LoginSpec == LoginInit /\ [][LoginNext]_vars

(***************************************************************************)
(* Properties.                                                             *)
(***************************************************************************)
FetchDone == fetchPc = "done" /\ error = Null

\* totalPages: ceil(filtered count / page size), 0 pages counting as 1
TotalPages ==
    IF numberOfPages(processedUsers, itemsPerPage) = 0
    THEN 1
    ELSE numberOfPages(processedUsers, itemsPerPage)

\* C1: after any sequence of user events the page index lies in
\* [0, totalPages - 1]
C1_PageInRange == page \in 0..(TotalPages - 1)

\* the name of user u, case-folded, holds the case-folded term at some offset
NameHasTerm(u, term) ==
    LET name == u.fields.name.chars
    IN  \E off \in 0..Len(name) :
            \A i \in 1..Len(term) :
                /\ off + i <= Len(name)
                /\ LowerChar(name[off + i]) = LowerChar(term[i])

\* the indices of the users that match the search term, and the j-th of them
MatchingIdx == {i \in 1..Len(users) : NameHasTerm(users[i], searchQuery)}
NthMatching(j) == CHOOSE i \in MatchingIdx : Cardinality({k \in MatchingIdx : k <= i}) = j

\* C2: the filter stage returns exactly the records whose name, lower-cased,
\* contains the lower-cased term, in their original relative order; for the
\* empty term the result is the collection; the rows shown are those records
C2_FilterExact ==
    LET filtered == FilterStage(users, searchQuery)
    IN  /\ Len(filtered) = Cardinality(MatchingIdx)
        /\ \A j \in 1..Len(filtered) : filtered[j] = users[NthMatching(j)]
        /\ (searchQuery = <<>>) => (filtered = users)
        /\ Len(processedUsers) = Len(filtered)
        /\ {processedUsers[i] : i \in 1..Len(processedUsers)}
              = {users[i] : i \in MatchingIdx}

\* a mixed-case term keeps a user that matches only after case-folding and
\* drops another user
C2_Witness ==
    /\ FetchDone
    /\ \E i, j \in 1..Len(users) :
          /\ i \in MatchingIdx
          /\ j \notin MatchingIdx
          /\ ~Includes(users[i].fields.name.chars, searchQuery)
          /\ \E k \in 1..Len(processedUsers) : processedUsers[k] = users[i]

\* pages 0 .. k-1 of arr, one after the other
RECURSIVE ConcatPages(_, _, _)
ConcatPages(arr, perPage, k) ==
    IF k = 0 THEN <<>>
    ELSE ConcatPages(arr, perPage, k - 1) \o paginatedUsers(arr, k - 1, perPage)

\* C3: for every page size of {5, 10, 15}, the rows of pages
\* 0 .. totalPages-1, concatenated, are the filtered and sorted sequence
C3_PagesCover ==
    \A n \in PerPageChoices :
        ConcatPages(processedUsers, n, numberOfPages(processedUsers, n)) = processedUsers

\* several pages, the last one partly filled
C3_Witness ==
    /\ FetchDone
    /\ Len(processedUsers) > 2 * itemsPerPage
    /\ Len(processedUsers) % itemsPerPage # 0

\* where the record x stands in the rows
RowOf(x) == CHOOSE k \in 1..Len(processedUsers) : processedUsers[k] = x

\* the pairs i < j of the filtered input whose case-folded sort values are equal
TiedPairs ==
    LET filtered == FilterStage(users, searchQuery)
    IN  {p \in (1..Len(filtered)) \X (1..Len(filtered)) :
            /\ p[1] < p[2]
            /\ SortValue(filtered[p[1]], sortColumn) = SortValue(filtered[p[2]], sortColumn)}

\* C4: in both directions and for every sort field, two records whose
\* case-folded sort values are equal keep the relative order of the filtered
\* input
C4_Stable ==
    LET filtered == FilterStage(users, searchQuery)
    IN  \A p \in TiedPairs :
            /\ \E k \in 1..Len(processedUsers) : processedUsers[k] = filtered[p[1]]
            /\ \E k \in 1..Len(processedUsers) : processedUsers[k] = filtered[p[2]]
            /\ RowOf(filtered[p[1]]) < RowOf(filtered[p[2]])

\* a descending sort of records of which two tie and a third sorts elsewhere
C4_Witness ==
    /\ FetchDone
    /\ sortDirection = "descending"
    /\ TiedPairs # {}
    /\ \E i, j \in 1..Len(processedUsers) :
          SortValue(processedUsers[i], sortColumn) # SortValue(processedUsers[j], sortColumn)

\* C5: in an ascending sort every record whose path resolves to missing
\* stands before every record whose path resolves to a value
C5_MissingFirst ==
    (fetchPc = "done" /\ sortDirection = "ascending") =>
        \A i, j \in 1..Len(processedUsers) :
            ( /\ getNestedValue(processedUsers[i], sortColumn) = Undefined
              /\ getNestedValue(processedUsers[j], sortColumn) # Undefined ) => i < j

\* C6: a press on the active sort column flips the direction and keeps the
\* column; a press on another column makes it the sort column, ascending
C6_SortPress ==
    [][\A c \in Columns :
          handleSort(c) =>
              IF c = sortColumn
              THEN /\ sortColumn' = sortColumn
                   /\ sortDirection' # sortDirection
                   /\ sortDirection' \in {"ascending", "descending"}
              ELSE /\ sortColumn' = c
                   /\ sortDirection' = "ascending"]_vars

\* a column other than the first one, pressed and pressed again
C6_Witness == sortColumn = "address.city" /\ sortDirection = "descending"

ExactPair(mail, pw) == mail = TestEmail /\ pw = TestPass

\* C7: the key 'user' is written and a login attempt navigates only for the
\* pair ('test@gmail.com', 'pass123'); any other attempt raises an alert and
\* leaves the store, the navigation and the pending writes as they were
C7_OnlyExactPair ==
    [][ /\ (storage' # storage \/ navCalls'.login # navCalls.login) =>
              /\ loginPending # <<>>
              /\ ExactPair(Head(loginPending).email, Head(loginPending).pass)
              /\ storage' = JsonStringify(TestEmail)
        /\ (handleLogin /\ ~ExactPair(email, pass)) =>
              /\ Len(alerts') = Len(alerts) + 1
              /\ storage' = storage
              /\ navCalls' = navCalls
              /\ loginPending' = loginPending ]_vars

\* a refused attempt with well-formed credentials, then an accepted one
C7_Witness ==
    /\ navCalls.login = 1
    /\ storage = JsonStringify(TestEmail)
    /\ \E i \in 1..Len(alerts) : alerts[i] = "Login Failed"

\* C8: no login attempt runs between the mount and the completion of the
\* session read, and once the read of a stored session has completed
\* navigation to Home has been issued exactly once
C8_ReadBeforeForm ==
    /\ (checkPc = "reading") =>
          (alerts = <<>> /\ loginPending = <<>> /\ navCalls.login = 0)
    /\ (checkPc = "done" /\ navCalls.check = 1 /\ loginPending = <<>>) =>
          (navCalls.check + navCalls.login = 1)

\* C9: the stored collection and its order change only when the fetch
\* completes; no user event and no recomputation of the pipeline writes it
C9_UsersFrame ==
    [][ /\ (users' # users) => (fetchPc \in {"pending", "json"} /\ fetchPc' = "done")
        /\ UserEvent => (users' = users) ]_vars

\* the rows are sorted into another order than the one the collection keeps
C9_Witness ==
    /\ FetchDone
    /\ searchQuery = <<>>
    /\ Len(users) > 1
    /\ processedUsers # users
    /\ users = response.data

\* C10: one fetch per mount; it completes; from then on loading is false and
\* the state is (no error, collection = response data) or (error, empty
\* collection); an error is never cleared and nothing is fetched again
C10_FetchOnce ==
    /\ [](fetchCount = IF fetchPc = "mount" THEN 0 ELSE 1)
    /\ <>(fetchPc = "done")
    /\ [](fetchPc = "done" =>
            /\ loading = FALSE
            /\ \/ (error = Null /\ response.json /\ users = response.data)
               \/ (error # Null /\ users = <<>>))
    /\ [][fetchPc = "done" => fetchPc' = "done"]_vars
    /\ [][error # Null => error' = error]_vars

\* the fetch has failed
C10_Witness == fetchPc = "done" /\ error # Null /\ ~loading

====
